---- MODULE Spec2Model ----
(***************************************************************************)
(* A model of gufe's custom JSON codecs (src/gufe/custom_codecs.py) and of *)
(* Protocol.create / Protocol.gather (src/gufe/protocols/protocol.py).     *)
(*                                                                         *)
(* Python values are tagged pairs <<tag, payload>>; a dict is a function   *)
(* from its key strings to such values; the outcome of a call is           *)
(* <<"ok", value>> or <<"raise", exception name>>.                         *)
(***************************************************************************)
EXTENDS Integers, Sequences, FiniteSets, TLC

VARIABLES
    op,         \* the operation that ran last
    arg,        \* the Python value the last encode was given (None otherwise)
    dct,        \* the dict the caller holds: produced by to_dict, or received
    out,        \* the outcome of the last operation
    log,        \* the primitive steps the last operation executed, in order
    byteorder,  \* the platform's native byte order
    first,      \* per operation, the outcome of its first run on the dict held
    orig,       \* the dict held, as it was when the caller got it
    calls       \* how many predicates and decodes have run on the dict held

vars == <<op, arg, dct, out, log, byteorder, first, orig, calls>>

\* ------------------------------------------------------------------ bounds

MaxLen == 3      \* longest byte sequence
MaxDim == 2      \* largest extent of an array axis
MaxField == 1    \* largest value of a settings field or magnitude
MaxCalls == 4    \* most predicate and decode calls on one dict

\* ------------------------------------------------------------ Python values

None == <<"none", "None">>
PyStr(s) == <<"str", s>>
PyInt(n) == <<"int", n>>
PyBool(b) == <<"bool", b>>
PyBytes(s) == <<"bytes", s>>
Ok(v) == <<"ok", v>>
Raise(e) == <<"raise", e>>
IsOk(o) == o[1] = "ok"
IsRaise(o) == o[1] = "raise"

EmptyDict == [k \in {} |-> None]
Dict1(k, v) == [x \in {k} |-> v]
DictRemove(d, k) == [x \in (DOMAIN d) \ {k} |-> d[x]]
DictUpdate(d, e) == [x \in (DOMAIN d) \cup (DOMAIN e) |-> IF x \in DOMAIN e THEN e[x] ELSE d[x]]

RECURSIVE SeqsUpTo(_, _)
SeqsUpTo(S, n) ==
    IF n = 0 THEN {<<>>}
    ELSE LET shorter == SeqsUpTo(S, n - 1)
         IN shorter \cup {Append(s, x) : s \in shorter, x \in S}

\* ------------------------------------------------------------- BYTES_CODEC

ByteVals == {0, 65, 128, 255}
CodePointBound == 256

\* bytes.decode('latin-1'): the charmap sends byte n to code point U+00n.
Latin1DecodeByte(b) == b

\* A decoder that replaces every byte outside ASCII by U+FFFD.
AsciiReplaceDecode(bs) == [i \in 1..Len(bs) |-> IF bs[i] < 128 THEN bs[i] ELSE 65533]

Latin1Decode(bs) == [i \in 1..Len(bs) |-> Latin1DecodeByte(bs[i])]

\* str.encode('latin-1'): one byte per code point below 256, else an error.
Latin1Encode(cps) ==
    IF \E i \in 1..Len(cps) : cps[i] >= CodePointBound
    THEN Raise("UnicodeEncodeError")
    ELSE Ok(PyBytes([i \in 1..Len(cps) |-> cps[i]]))

BYTES_to_dict(obj) == Dict1("latin-1", PyStr(Latin1Decode(obj[2])))

BYTES_from_dict(d) ==
    IF "latin-1" \notin DOMAIN d THEN Raise("KeyError")
    ELSE Latin1Encode(d["latin-1"][2])

ByteSeqs == SeqsUpTo(ByteVals, MaxLen)

\* ------------------------------------------------------------- NUMPY_CODEC

DTypes == {"uint8", "int16"}
ItemSize(dtype) == IF dtype = "uint8" THEN 1 ELSE 2
Signed(dtype) == dtype = "int16"
ElemVals(dtype) == IF dtype = "uint8" THEN {7, 255} ELSE {-2, 258}

RECURSIVE Pow256(_)
Pow256(n) == IF n = 0 THEN 1 ELSE 256 * Pow256(n - 1)

RECURSIVE Prod(_)
Prod(shape) == IF Len(shape) = 0 THEN 1 ELSE Head(shape) * Prod(Tail(shape))

\* The bytes of one element in memory, in the platform's byte order.
ElemToBytes(v, dtype, order) ==
    LET w == ItemSize(dtype)
        u == v % Pow256(w)
        le == [i \in 1..w |-> (u \div Pow256(i - 1)) % 256]
    IN IF order = "little" THEN le ELSE [i \in 1..w |-> le[w + 1 - i]]

\* The element a run of ItemSize bytes stands for under dtype.
ElemFromBytes(bs, dtype, order) ==
    LET w == ItemSize(dtype)
        le == IF order = "little" THEN bs ELSE [i \in 1..w |-> bs[w + 1 - i]]
        RECURSIVE Sum(_)
        Sum(i) == IF i > w THEN 0 ELSE le[i] * Pow256(i - 1) + Sum(i + 1)
        u == Sum(1)
    IN IF Signed(dtype) /\ u >= Pow256(w) \div 2 THEN u - Pow256(w) ELSE u

\* The index tuples (0-based) of an array of the given shape.
Indices(shape) ==
    LET Extents == UNION {0..(shape[i] - 1) : i \in 1..Len(shape)}
    IN {idx \in [1..Len(shape) -> Extents] : \A i \in 1..Len(shape) : idx[i] < shape[i]}

\* Row-major (C order): the last axis varies fastest.
OffsetC(idx, shape) ==
    LET RECURSIVE Off(_)
        Off(i) == IF i > Len(shape) THEN 0
                  ELSE idx[i] * Prod(SubSeq(shape, i + 1, Len(shape))) + Off(i + 1)
    IN Off(1)

\* Column-major (Fortran order): the first axis varies fastest.
UnravelF(k, shape) ==
    [i \in 1..Len(shape) |-> (k \div Prod(SubSeq(shape, 1, i - 1))) % shape[i]]

\* The k-th index tuple that tobytes(order='C') visits.
UnravelC(k, shape) ==
    [i \in 1..Len(shape) |-> (k \div Prod(SubSeq(shape, i + 1, Len(shape)))) % shape[i]]

NdArray(dtype, shape, elems) == <<"ndarray", [dtype |-> dtype, shape |-> shape, elems |-> elems]>>

\* ndarray.tobytes(): the elements in C order, each in native byte order.
ToBytes(a, order) ==
    LET w == ItemSize(a.dtype)
        n == Prod(a.shape)
    IN [j \in 1..(n * w) |->
            ElemToBytes(a.elems[UnravelC((j - 1) \div w, a.shape)], a.dtype, order)[((j - 1) % w) + 1]]

NUMPY_to_dict(obj, order) ==
    [k \in {"dtype", "shape", "bytes"} |->
        CASE k = "dtype" -> PyStr(obj[2].dtype)
          [] k = "shape" -> <<"list", obj[2].shape>>
          [] k = "bytes" -> PyBytes(ToBytes(obj[2], order))]

\* A frombuffer that drops a trailing partial element instead of failing.
FromBufferTruncating(bs, dtype, order) ==
    LET w == ItemSize(dtype)
    IN Ok([k \in 1..(Len(bs) \div w) |->
              ElemFromBytes(SubSeq(bs, (k - 1) * w + 1, k * w), dtype, order)])

\* np.frombuffer(buffer, dtype): a 1-D array over the buffer, or ValueError
\* when the buffer is not a whole number of elements.
FromBuffer(bs, dtype, order) ==
    LET w == ItemSize(dtype)
    IN IF Len(bs) % w # 0 THEN Raise("ValueError")
       ELSE Ok([k \in 1..(Len(bs) \div w) |->
                    ElemFromBytes(SubSeq(bs, (k - 1) * w + 1, k * w), dtype, order)])

\* ndarray.reshape(shape) of a 1-D array: ValueError unless the sizes agree.
Reshape(flat, dtype, shape) ==
    IF Prod(shape) # Len(flat) THEN Raise("ValueError")
    ELSE Ok(NdArray(dtype, shape, [idx \in Indices(shape) |-> flat[OffsetC(idx, shape) + 1]]))

\* NUMPY_CODEC.from_dict, in Python's evaluation order: dct['bytes'],
\* dct['dtype'], np.frombuffer, dct['shape'], reshape.
NUMPY_from_dict(d, order) ==
    IF "bytes" \notin DOMAIN d THEN [out |-> Raise("KeyError"), log |-> <<"getitem bytes">>]
    ELSE IF "dtype" \notin DOMAIN d
    THEN [out |-> Raise("KeyError"), log |-> <<"getitem bytes", "getitem dtype">>]
    ELSE LET flat == FromBuffer(d["bytes"][2], d["dtype"][2], order)
             l3 == <<"getitem bytes", "getitem dtype", "frombuffer">>
         IN IF IsRaise(flat) THEN [out |-> flat, log |-> l3]
            ELSE IF "shape" \notin DOMAIN d
            THEN [out |-> Raise("KeyError"), log |-> Append(l3, "getitem shape")]
            ELSE [out |-> Reshape(flat[2], d["dtype"][2], d["shape"][2]),
                  log |-> l3 \o <<"getitem shape", "reshape">>]

Shapes == SeqsUpTo(0..MaxDim, 2)

Arrays ==
    UNION {{NdArray(dt, sh, e) : e \in [Indices(sh) -> ElemVals(dt)]} : dt \in DTypes, sh \in Shapes}

\* The array-shaped dicts a caller may hand to from_dict: any of the three
\* keys may be absent, and the payload need not fit dtype and shape.
Opt(k, V) == {EmptyDict} \cup {Dict1(k, v) : v \in V}

ArrayDicts ==
    {DictUpdate(DictUpdate(a, b), c) :
        a \in Opt("dtype", {PyStr(dt) : dt \in DTypes}),
        b \in Opt("shape", {<<"list", sh>> : sh \in Shapes}),
        c \in Opt("bytes", {PyBytes(bs) : bs \in SeqsUpTo({1, 2}, MaxLen)})}

\* ------------------------------------------------- openff units, quantities

UnitNames == {"meter", "second"}
Unit(name) == <<"unit", name>>
Quantity(m, u) == <<"quantity", [m |-> m, u |-> u]>>

Units == {Unit(n) : n \in UnitNames}
Quantities == {Quantity(PyInt(m), u) : m \in 0..MaxField, u \in Units}

\* str(unit): the unit's name.
UnitStr(unit) == PyStr(unit[2])

openff_unit_to_dict(unit) ==
    [k \in {":is_custom:", "pint_unit_registry", "unit_name"} |->
        CASE k = ":is_custom:" -> PyBool(TRUE)
          [] k = "pint_unit_registry" -> PyStr("openff_units")
          [] k = "unit_name" -> UnitStr(unit)]

\* A quantity to_dict that stores the unit's name string instead of the unit.
QuantityToDictUnitName(obj) ==
    [k \in {"magnitude", "unit", ":is_custom:", "pint_unit_registry"} |->
        CASE k = "magnitude" -> obj[2].m
          [] k = "unit" -> UnitStr(obj[2].u)
          [] k = ":is_custom:" -> PyBool(TRUE)
          [] k = "pint_unit_registry" -> PyStr("openff_units")]

\* OPENFF_QUANTITY_CODEC.to_dict: 'unit' holds obj.u, the unit object itself.
OPENFF_QUANTITY_to_dict(obj) ==
    [k \in {"magnitude", "unit", ":is_custom:", "pint_unit_registry"} |->
        CASE k = "magnitude" -> obj[2].m
          [] k = "unit" -> obj[2].u
          [] k = ":is_custom:" -> PyBool(TRUE)
          [] k = "pint_unit_registry" -> PyStr("openff_units")]

\* A unit predicate that checks the keys but not the registry value.
UnitDictKeysOnly(d) ==
    {"pint_unit_registry", "unit_name", ":is_custom:"} \subseteq DOMAIN d

is_openff_unit_dict(d) ==
    LET expected == {"pint_unit_registry", "unit_name", ":is_custom:"}
        is_custom == \A exp \in expected : exp \in DOMAIN d
    IN is_custom /\ d["pint_unit_registry"] = PyStr("openff_units")

is_openff_quantity_dict(d) ==
    LET expected == {"pint_unit_registry", "magnitude", ":is_custom:", "unit"}
        is_custom == \A exp \in expected : exp \in DOMAIN d
    IN is_custom /\ d["pint_unit_registry"] = PyStr("openff_units")

\* ------------------------------------------------ classes and the resolver

SettingsModule == "gufe.settings.models"
SettingsBase == "SettingsBaseModel"

\* The classes importable from the settings module, with their direct bases.
ClassNames == {"object", "BaseModel", "SettingsBaseModel", "ThermoSettings", "Mixin", "ProtocolSettings"}

Bases(c) ==
    CASE c = "object" -> <<>>
      [] c = "BaseModel" -> <<"object">>
      [] c = "SettingsBaseModel" -> <<"BaseModel">>
      [] c = "ThermoSettings" -> <<"SettingsBaseModel">>
      [] c = "Mixin" -> <<"object">>
      [] c = "ProtocolSettings" -> <<"Mixin", "ThermoSettings">>

\* The named fields a class declares (obj.__fields__).
Fields(c) ==
    CASE c = "ThermoSettings" -> {"temperature"}
      [] c = "ProtocolSettings" -> {"temperature", "n_steps"}
      [] OTHER -> {}

Range(s) == {s[i] : i \in 1..Len(s)}

\* The merge step of Python's C3 linearisation.
RECURSIVE C3Merge(_)
C3Merge(seqs) ==
    LET live == SelectSeq(seqs, LAMBDA q : Len(q) > 0)
    IN IF Len(live) = 0 THEN <<>>
       ELSE LET good(i) == \A j \in 1..Len(live) : Head(live[i]) \notin Range(Tail(live[j]))
                pick == CHOOSE i \in 1..Len(live) :
                            good(i) /\ \A j \in 1..(i - 1) : ~good(j)
                h == Head(live[pick])
                rest == [i \in 1..Len(live) |->
                            IF Head(live[i]) = h THEN Tail(live[i]) ELSE live[i]]
            IN <<h>> \o C3Merge(rest)

\* A linearisation that lists only the class and its direct bases.
MroDirectBases(c) == <<c>> \o Bases(c)

\* type.mro(): the class, then the C3 merge of its bases' linearisations.
RECURSIVE Mro(_)
Mro(c) ==
    IF Len(Bases(c)) = 0 THEN <<c>>
    ELSE <<c>> \o C3Merge([i \in 1..Len(Bases(c)) |-> Mro(Bases(c)[i])] \o <<Bases(c)>>)

\* gufe.tokenization.get_class(module, qualname): the class of that name in
\* that module, or the class-resolution error.
get_class(module, qualname) ==
    IF module = PyStr(SettingsModule) /\ qualname[1] = "str" /\ qualname[2] \in ClassNames \ {"object", "Mixin"}
    THEN Ok(<<"class", qualname[2]>>)
    ELSE Raise("ClassResolutionError")

\* cls(**kwargs) for a pydantic model: an object holding exactly the named
\* fields, or a validation error when the keywords are not the fields.
Construct(cls, kwargs) ==
    IF DOMAIN kwargs = Fields(cls[2])
    THEN Ok(<<"obj", [cls |-> cls[2], fields |-> kwargs]>>)
    ELSE Raise("ValidationError")

\* ---------------------------------------------------------- SETTINGS_CODEC

\* Dicts live on a heap: "caller" is the dict the caller passed, "local" the
\* callee's copy of it.
HeapOf(d) == [r \in {"caller"} |-> d]

\* dct = dct: the callee keeps working on the caller's dict.
AliasDict(h, r) == [heap |-> h, ref |-> r]

\* dct = dict(dct): a shallow copy under a new reference.
CopyDict(h, r) ==
    [heap |-> [x \in (DOMAIN h) \cup {"local"} |-> IF x = "local" THEN h[r] ELSE h[x]],
     ref |-> "local"]

\* dct.pop(k) and del dct[k] on the dict at reference r.
DelKey(h, r, k) == [h EXCEPT ![r] = DictRemove(@, k)]

\* A decode that leaves ':is_custom:' among the constructor's keywords.
default_from_dict_keeps_marker(h, r) ==
    LET c == CopyDict(h, r)
        l == c.ref
        h1 == c.heap
    IN IF "__module__" \notin DOMAIN h1[l]
       THEN [heap |-> h1, out |-> Raise("KeyError"), log |-> <<>>]
       ELSE LET h2 == DelKey(h1, l, "__module__")
            IN IF "__class__" \notin DOMAIN h2[l]
               THEN [heap |-> h2, out |-> Raise("KeyError"), log |-> <<>>]
               ELSE LET h3 == DelKey(h2, l, "__class__")
                        cls == get_class(h1[l]["__module__"], h2[l]["__class__"])
                    IN IF IsRaise(cls)
                       THEN [heap |-> h3, out |-> cls, log |-> <<"get_class">>]
                       ELSE [heap |-> h3, out |-> Construct(cls[2], h3[l]),
                             log |-> <<"get_class", "construct">>]

\* default_from_dict: copy, pop '__module__', pop '__class__', delete
\* ':is_custom:', resolve the class, construct it from what is left.
default_from_dict(h, r) ==
    LET c == CopyDict(h, r)
        l == c.ref
        h1 == c.heap
    IN IF "__module__" \notin DOMAIN h1[l]
       THEN [heap |-> h1, out |-> Raise("KeyError"), log |-> <<>>]
       ELSE LET h2 == DelKey(h1, l, "__module__")
            IN IF "__class__" \notin DOMAIN h2[l]
               THEN [heap |-> h2, out |-> Raise("KeyError"), log |-> <<>>]
               ELSE LET h3 == DelKey(h2, l, "__class__")
                    IN IF ":is_custom:" \notin DOMAIN h3[l]
                       THEN [heap |-> h3, out |-> Raise("KeyError"), log |-> <<>>]
                       ELSE LET h4 == DelKey(h3, l, ":is_custom:")
                                cls == get_class(h1[l]["__module__"], h2[l]["__class__"])
                            IN IF IsRaise(cls)
                               THEN [heap |-> h4, out |-> cls, log |-> <<"get_class">>]
                               ELSE [heap |-> h4, out |-> Construct(cls[2], h4[l]),
                                     log |-> <<"get_class", "construct">>]

\* A predicate that answers False when the class does not resolve.
inherited_is_my_dict_lenient(h, r, cls) ==
    IF ~("__module__" \in DOMAIN h[r] /\ "__class__" \in DOMAIN h[r])
    THEN [heap |-> h, out |-> Ok(PyBool(FALSE)), log |-> <<>>]
    ELSE LET stored == get_class(h[r]["__module__"], h[r]["__class__"])
         IN [heap |-> h,
             out |-> Ok(PyBool(IsOk(stored) /\ cls \in Range(Mro(stored[2][2])))),
             log |-> <<"get_class">>]

\* inherited_is_my_dict: False unless both keys are present; else copy, pop
\* both, resolve the class and look for cls in its mro().
inherited_is_my_dict(h, r, cls) ==
    IF ~("__module__" \in DOMAIN h[r] /\ "__class__" \in DOMAIN h[r])
    THEN [heap |-> h, out |-> Ok(PyBool(FALSE)), log |-> <<>>]
    ELSE LET c == CopyDict(h, r)
             l == c.ref
             h1 == c.heap
             h2 == DelKey(h1, l, "__module__")
             h3 == DelKey(h2, l, "__class__")
             stored == get_class(h1[l]["__module__"], h2[l]["__class__"])
         IN IF IsRaise(stored)
            THEN [heap |-> h3, out |-> stored, log |-> <<"get_class">>]
            ELSE [heap |-> h3, out |-> Ok(PyBool(cls \in Range(Mro(stored[2][2])))),
                  log |-> <<"get_class">>]

\* SETTINGS_CODEC.to_dict: one entry per named field of the object.
SETTINGS_to_dict(obj) == [f \in Fields(obj[2].cls) |-> obj[2].fields[f]]

\* The canonical dict of a settings object: to_dict plus the bookkeeping keys
\* for the object's class.
CanonicalDict(obj) ==
    DictUpdate([k \in {"__class__", "__module__", ":is_custom:"} |->
                   CASE k = "__class__" -> PyStr(obj[2].cls)
                     [] k = "__module__" -> PyStr(SettingsModule)
                     [] k = ":is_custom:" -> PyBool(TRUE)],
               SETTINGS_to_dict(obj))

SettingsClasses == {"SettingsBaseModel", "ThermoSettings", "ProtocolSettings"}

SettingsObjects ==
    UNION {{<<"obj", [cls |-> c, fields |-> f]>> :
                f \in [Fields(c) -> {PyInt(n) : n \in 0..MaxField}]} : c \in SettingsClasses}

\* The dicts that may arrive from the wire: every combination of the settings
\* keys with none or all of the unit keys, and every combination of the unit
\* and quantity keys with none or all of the settings keys.
SettingsParts ==
    {DictUpdate(DictUpdate(DictUpdate(DictUpdate(a, b), c), e), f) :
        a \in Opt("__module__", {PyStr(SettingsModule), PyStr("nowhere")}),
        b \in Opt("__class__", {PyStr(n) : n \in {"SettingsBaseModel", "ThermoSettings",
                                                  "ProtocolSettings", "BaseModel", "Missing"}}),
        c \in Opt(":is_custom:", {PyBool(TRUE)}),
        e \in Opt("temperature", {PyInt(n) : n \in 0..MaxField}),
        f \in Opt("n_steps", {PyInt(0)})}

UnitParts ==
    {DictUpdate(DictUpdate(DictUpdate(DictUpdate(a, b), c), e), f) :
        a \in Opt("pint_unit_registry", {PyStr("openff_units"), PyStr("other")}),
        b \in Opt("unit_name", {PyStr("meter")}),
        c \in Opt("magnitude", {PyInt(1)}),
        e \in Opt("unit", {Unit("meter")}),
        f \in Opt(":is_custom:", {PyBool(TRUE)})}

WireDicts ==
    {DictUpdate(a, b) : a \in SettingsParts, b \in {EmptyDict, openff_unit_to_dict(Unit("meter"))}}
    \cup
    {DictUpdate(a, b) :
        a \in {EmptyDict, CanonicalDict(<<"obj", [cls |-> "ThermoSettings",
                                                 fields |-> Dict1("temperature", PyInt(0))]>>)},
        b \in UnitParts}

\* ----------------------------------------------------------------- Protocol

ChemicalSystems == {<<"ChemicalSystem", n>> : n \in {"benzene", "toluene", "phenol"}}
Mappings == {<<"Mapping", "benzene-toluene">>}
DAGResults == {<<"ProtocolDAGResult", n>> : n \in {"run1", "run2"}}
ProtocolSettingsValues == {<<"ProtocolSettings", "overrides">>}

\* The parameters the abstract Protocol._create declares, after self; the
\* first two have no default.
DeclaredCreateParams == {"initial", "final", "mapping", "protocol_result", "settings"}
RequiredCreateParams == {"initial", "final"}

\* The _create signatures a subclass may have: the declared one, or one that
\* names the result to extend from as create passes it.
Signatures == {"declared", "extend_from"}
ParamsOf(sig) ==
    IF sig = "declared" THEN DeclaredCreateParams
    ELSE {"initial", "final", "mapping", "extend_from", "settings"}
ExtendParam(sig) == IF sig = "declared" THEN "protocol_result" ELSE "extend_from"

\* Python's binding of keyword arguments to a signature without **kwargs:
\* TypeError on an unexpected keyword or a missing required parameter,
\* defaults (None) for the rest.
BindKeywords(params, required, kwargs) ==
    IF (DOMAIN kwargs) \ params # {} \/ required \ (DOMAIN kwargs) # {}
    THEN Raise("TypeError")
    ELSE Ok([p \in params |-> IF p \in DOMAIN kwargs THEN kwargs[p] ELSE None])

\* A subclass's _create: the ProtocolDAG it builds from what it was given.
SubclassCreate(sig, kwargs) ==
    LET bound == BindKeywords(ParamsOf(sig), RequiredCreateParams, kwargs)
    IN IF IsRaise(bound) THEN bound
       ELSE Ok(<<"ProtocolDAG", [initial |-> bound[2]["initial"],
                                 final |-> bound[2]["final"],
                                 mapping |-> bound[2]["mapping"],
                                 extends |-> bound[2][ExtendParam(sig)],
                                 settings |-> bound[2]["settings"]]>>)

\* The keywords Protocol.create passes to self._create.
CreateKeywords == {"initial", "final", "mapping", "extend_from", "settings"}

\* Protocol.create: return self._create(initial=..., final=..., mapping=...,
\* extend_from=..., settings=...).
ProtocolCreate(sig, initial, final, mapping, extend_from, settings) ==
    SubclassCreate(sig,
        [k \in CreateKeywords |->
            CASE k = "initial" -> initial
              [] k = "final" -> final
              [] k = "mapping" -> mapping
              [] k = "extend_from" -> extend_from
              [] k = "settings" -> settings])

\* A subclass's _gather: one ProtocolResult over the results given.
SubclassGather(protocol_dag_results) == Ok(<<"ProtocolResult", protocol_dag_results>>)

\* Protocol.gather: return self._gather(protocol_dag_results).
ProtocolGather(protocol_dag_results) == SubclassGather(protocol_dag_results)

\* ------------------------------------------------------------------ state

Init ==
    /\ op = "init"
    /\ arg = None
    /\ dct = EmptyDict
    /\ out = None
    /\ log = <<>>
    /\ byteorder \in {"little", "big"}
    /\ first = EmptyDict
    /\ orig = EmptyDict
    /\ calls = 0

Idle == op = "init"

\* The caller now holds dict d, which to_dict made of value v (None: received).
Hold(name, v, d) ==
    /\ op' = name
    /\ arg' = v
    /\ dct' = d
    /\ orig' = d
    /\ out' = Ok(d)
    /\ UNCHANGED <<log, byteorder, first, calls>>

BytesEncode ==
    /\ Idle
    /\ \E b \in ByteSeqs : Hold("BYTES.to_dict", PyBytes(b), BYTES_to_dict(PyBytes(b)))

BytesDecode ==
    /\ op = "BYTES.to_dict"
    /\ op' = "BYTES.from_dict"
    /\ out' = BYTES_from_dict(dct)
    /\ UNCHANGED <<arg, dct, log, byteorder, first, orig, calls>>

NumpyEncode ==
    /\ Idle
    /\ \E a \in Arrays : Hold("NUMPY.to_dict", a, NUMPY_to_dict(a, byteorder))

\* A dict arrives from the wire instead of from to_dict.
ReceiveArrayDict ==
    /\ Idle
    /\ \E d \in ArrayDicts : Hold("receive array dict", None, d)

NumpyDecode ==
    /\ op \in {"NUMPY.to_dict", "receive array dict"}
    /\ op' = "NUMPY.from_dict"
    /\ out' = NUMPY_from_dict(dct, byteorder).out
    /\ log' = NUMPY_from_dict(dct, byteorder).log
    /\ UNCHANGED <<arg, dct, byteorder, first, orig, calls>>

UnitEncode ==
    /\ Idle
    /\ \E u \in Units : Hold("UNIT.to_dict", u, openff_unit_to_dict(u))

QuantityEncode ==
    /\ Idle
    /\ \E q \in Quantities : Hold("QUANTITY.to_dict", q, OPENFF_QUANTITY_to_dict(q))

SettingsEncode ==
    /\ Idle
    /\ \E v \in SettingsObjects : Hold("SETTINGS.encode", v, CanonicalDict(v))

ReceiveDict ==
    /\ Idle
    /\ \E d \in WireDicts : Hold("receive dict", None, d)

DictOps ==
    {"UNIT.to_dict", "QUANTITY.to_dict", "SETTINGS.encode", "receive dict",
     "is_openff_unit_dict", "is_openff_quantity_dict", "SETTINGS.is_my_dict", "SETTINGS.from_dict"}

\* Operation name ran on the caller's dict: r is its outcome, its log and the
\* heap it left.
Ran(name, r) ==
    /\ calls < MaxCalls
    /\ op' = name
    /\ out' = r.out
    /\ log' = r.log
    /\ dct' = r.heap["caller"]
    /\ first' = IF name \in DOMAIN first THEN first ELSE DictUpdate(first, Dict1(name, r.out))
    /\ calls' = calls + 1
    /\ UNCHANGED <<arg, byteorder, orig>>

IsUnitDict ==
    /\ op \in DictOps
    /\ Ran("is_openff_unit_dict",
        [heap |-> HeapOf(dct), out |-> Ok(PyBool(is_openff_unit_dict(dct))), log |-> <<>>])

IsQuantityDict ==
    /\ op \in DictOps
    /\ Ran("is_openff_quantity_dict",
        [heap |-> HeapOf(dct), out |-> Ok(PyBool(is_openff_quantity_dict(dct))), log |-> <<>>])

\* SETTINGS_CODEC.is_my_dict: inherited_is_my_dict with cls=SettingsBaseModel.
SettingsIsMyDict ==
    /\ op \in DictOps
    /\ Ran("SETTINGS.is_my_dict", inherited_is_my_dict(HeapOf(dct), "caller", SettingsBase))

SettingsDecode ==
    /\ op \in DictOps
    /\ Ran("SETTINGS.from_dict", default_from_dict(HeapOf(dct), "caller"))

Create ==
    /\ Idle
    /\ \E sig \in Signatures, initial \in ChemicalSystems, final \in ChemicalSystems,
          mapping \in Mappings \cup {None}, extend_from \in DAGResults \cup {None},
          settings \in ProtocolSettingsValues \cup {None} :
        /\ op' = "Protocol.create"
        /\ arg' = <<"call", [signature |-> sig, initial |-> initial, final |-> final,
                             mapping |-> mapping, extend_from |-> extend_from,
                             settings |-> settings]>>
        /\ out' = ProtocolCreate(sig, initial, final, mapping, extend_from, settings)
    /\ UNCHANGED <<dct, log, byteorder, first, orig, calls>>

Gather ==
    /\ Idle
    /\ \E results \in SeqsUpTo(DAGResults, 2) :
        /\ op' = "Protocol.gather"
        /\ arg' = <<"list", results>>
        /\ out' = ProtocolGather(results)
    /\ UNCHANGED <<dct, log, byteorder, first, orig, calls>>

\* The caller drops the dict and the result, and is ready for the next call.
Discard ==
    /\ ~Idle
    /\ op' = "init"
    /\ arg' = None
    /\ dct' = EmptyDict
    /\ out' = None
    /\ log' = <<>>
    /\ first' = EmptyDict
    /\ orig' = EmptyDict
    /\ calls' = 0
    /\ UNCHANGED byteorder

Next ==
    \/ BytesEncode
    \/ BytesDecode
    \/ NumpyEncode
    \/ ReceiveArrayDict
    \/ NumpyDecode
    \/ UnitEncode
    \/ QuantityEncode
    \/ SettingsEncode
    \/ ReceiveDict
    \/ IsUnitDict
    \/ IsQuantityDict
    \/ SettingsIsMyDict
    \/ SettingsDecode
    \/ Create
    \/ Gather
    \/ Discard

Spec == Init /\ [][Next]_vars

\* C1: decoding the dict BYTES_CODEC produced for a byte sequence gives back
\* a byte sequence of the same length with the same byte at every position,
\* and that dict has the single key 'latin-1', holding a string with one code
\* point per byte.
BytesRoundTrip ==
    /\ op = "BYTES.to_dict" =>
          /\ DOMAIN dct = {"latin-1"}
          /\ dct["latin-1"][1] = "str"
          /\ Len(dct["latin-1"][2]) = Len(arg[2])
    /\ op = "BYTES.from_dict" =>
          /\ IsOk(out)
          /\ out[2][1] = "bytes"
          /\ Len(out[2][2]) = Len(arg[2])
          /\ \A i \in 1..Len(arg[2]) : out[2][2][i] = arg[2][i]

BytesRoundTripWitness ==
    /\ op = "BYTES.from_dict"
    /\ arg = PyBytes(<<0, 255, 65>>)
    /\ out = Ok(PyBytes(<<0, 255, 65>>))

\* C2: NUMPY_CODEC.to_dict of an array has exactly the keys dtype, shape and
\* bytes (the dtype's name, the list of dimensions, the elements flattened in
\* row-major order), and from_dict of that dict is an array of the same
\* dtype, the same shape and the same element at every index.
RowMajorBytes(a, order) ==
    LET w == ItemSize(a.dtype)
    IN \A idx \in Indices(a.shape) :
          SubSeq(ToBytes(a, order), OffsetC(idx, a.shape) * w + 1, (OffsetC(idx, a.shape) + 1) * w)
              = ElemToBytes(a.elems[idx], a.dtype, order)

ArrayRoundTrip ==
    /\ op = "NUMPY.to_dict" =>
          /\ DOMAIN dct = {"dtype", "shape", "bytes"}
          /\ dct["dtype"] = PyStr(arg[2].dtype)
          /\ dct["shape"] = <<"list", arg[2].shape>>
          /\ dct["bytes"][1] = "bytes"
          /\ Len(dct["bytes"][2]) = Prod(arg[2].shape) * ItemSize(arg[2].dtype)
          /\ RowMajorBytes(arg[2], byteorder)
    /\ (op = "NUMPY.from_dict" /\ arg[1] = "ndarray") =>
          /\ IsOk(out)
          /\ out[2][1] = "ndarray"
          /\ out[2][2].dtype = arg[2].dtype
          /\ out[2][2].shape = arg[2].shape
          /\ \A idx \in Indices(arg[2].shape) : out[2][2].elems[idx] = arg[2].elems[idx]

ArrayRoundTripWitness ==
    /\ op = "NUMPY.from_dict"
    /\ arg = NdArray("int16", <<2, 2>>,
                     [idx \in Indices(<<2, 2>>) |-> IF idx = <<0, 1>> THEN 258 ELSE -2])
    /\ out = Ok(arg)

\* An array-shaped dict is malformed when a key is absent or the payload's
\* length is not the dtype's width times the product of the shape.
Malformed(d) ==
    \/ {"dtype", "shape", "bytes"} \ (DOMAIN d) # {}
    \/ Len(d["bytes"][2]) # ItemSize(d["dtype"][2]) * Prod(d["shape"][2])

Logged(step) == \E i \in 1..Len(log) : log[i] = step

HasClassKeys(d) == "__module__" \in DOMAIN d /\ "__class__" \in DOMAIN d
Resolved(d) == get_class(d["__module__"], d["__class__"])
Bookkeeping == {"__module__", "__class__", ":is_custom:"}
WithoutBookkeeping(d) == [k \in (DOMAIN d) \ Bookkeeping |-> d[k]]

\* The settings predicate has run on the dict held and accepted it.
Accepted == "SETTINGS.is_my_dict" \in DOMAIN first /\ first["SETTINGS.is_my_dict"] = Ok(PyBool(TRUE))

\* The dict held is the canonical dict of a settings object.
SettingsMade == arg[1] = "obj"

\* C4 (as stated): for every dict the settings codec accepts, default_from_dict
\* resolves its class and constructs it from exactly the entries other than
\* the three bookkeeping keys; and decoding the canonical dict of a settings
\* object gives an object of the same class with the same fields.
DecodeConstructsFromAccepted ==
    /\ (op = "SETTINGS.from_dict" /\ Accepted) =>
          /\ out = Construct(Resolved(dct)[2], WithoutBookkeeping(dct))
          /\ log = <<"get_class", "construct">>
    /\ (op = "SETTINGS.from_dict" /\ SettingsMade) => out = Ok(arg)

\* C4 (amended): the same for every accepted dict that carries the
\* ':is_custom:' key; an accepted dict without it makes default_from_dict
\* raise KeyError before the class is resolved or anything is constructed.
DecodeConstructsFromMarked ==
    /\ (op = "SETTINGS.from_dict" /\ Accepted /\ ":is_custom:" \in DOMAIN dct) =>
          /\ out = Construct(Resolved(dct)[2], WithoutBookkeeping(dct))
          /\ log = <<"get_class", "construct">>
    /\ (op = "SETTINGS.from_dict" /\ Accepted /\ ":is_custom:" \notin DOMAIN dct) =>
          /\ out = Raise("KeyError")
          /\ log = <<>>
    /\ (op = "SETTINGS.from_dict" /\ SettingsMade) =>
          /\ IsOk(out)
          /\ out[2][2].cls = arg[2].cls
          /\ \A f \in Fields(arg[2].cls) : out[2][2].fields[f] = arg[2].fields[f]

DecodeWitness ==
    /\ op = "SETTINGS.from_dict"
    /\ Accepted
    /\ SettingsMade
    /\ arg[2].cls = "ProtocolSettings"
    /\ out = Ok(arg)

\* T is cls or has cls among its ancestors, by the direct-base relation.
RECURSIVE IsSubtype(_, _)
IsSubtype(T, cls) ==
    T = cls \/ \E i \in 1..Len(Bases(T)) : IsSubtype(Bases(T)[i], cls)

\* C5: for a dict whose '__module__' and '__class__' resolve to a type T, the
\* settings predicate returns true exactly when T is the settings base type
\* or a subtype of it at any depth, and false, without raising, otherwise.
SubtypeCoverage ==
    (op = "SETTINGS.is_my_dict" /\ HasClassKeys(dct) /\ IsOk(Resolved(dct))) =>
        out = Ok(PyBool(IsSubtype(Resolved(dct)[2][2], SettingsBase)))

SubtypeCoverageWitness ==
    /\ op = "SETTINGS.is_my_dict"
    /\ HasClassKeys(dct)
    /\ dct["__class__"] = PyStr("ProtocolSettings")
    /\ out = Ok(PyBool(TRUE))

\* C6 (as stated): when both class keys are present and do not resolve, the
\* settings predicate and default_from_dict fail with the class-resolution
\* error; when either key is absent the predicate returns false without
\* consulting the resolver.
UnresolvedRaisesResolutionError ==
    /\ (op \in {"SETTINGS.is_my_dict", "SETTINGS.from_dict"}
            /\ HasClassKeys(dct) /\ IsRaise(Resolved(dct))) =>
          out = Raise("ClassResolutionError")
    /\ (op = "SETTINGS.is_my_dict" /\ ~HasClassKeys(dct)) =>
          out = Ok(PyBool(FALSE)) /\ ~Logged("get_class")

\* C6 (amended): the same, except that default_from_dict fails with the
\* class-resolution error only when ':is_custom:' is present too; without
\* it, it raises KeyError and never consults the resolver.
UnresolvedRaisesResolutionOrKeyError ==
    /\ (op = "SETTINGS.is_my_dict" /\ HasClassKeys(dct) /\ IsRaise(Resolved(dct))) =>
          out = Raise("ClassResolutionError")
    /\ (op = "SETTINGS.from_dict" /\ HasClassKeys(dct) /\ IsRaise(Resolved(dct))) =>
          IF ":is_custom:" \in DOMAIN dct
          THEN out = Raise("ClassResolutionError")
          ELSE out = Raise("KeyError") /\ ~Logged("get_class")
    /\ (op = "SETTINGS.is_my_dict" /\ ~HasClassKeys(dct)) =>
          out = Ok(PyBool(FALSE)) /\ ~Logged("get_class")

UnresolvedWitness ==
    /\ op = "SETTINGS.from_dict"
    /\ HasClassKeys(dct)
    /\ ":is_custom:" \in DOMAIN dct
    /\ dct["__class__"] = PyStr("Missing")
    /\ "SETTINGS.is_my_dict" \in DOMAIN first
    /\ first["SETTINGS.is_my_dict"] = Raise("ClassResolutionError")
    /\ out = Raise("ClassResolutionError")

\* C9: after any run of default_from_dict or inherited_is_my_dict on a dict,
\* returning or failing, the caller's dict has the keys and values it had
\* before, and each operation gives again the outcome of its first run.
CallerDictUnchanged ==
    op \in {"SETTINGS.is_my_dict", "SETTINGS.from_dict"} =>
        /\ dct = orig
        /\ out = first[op]

CallerDictUnchangedWitness ==
    /\ op = "SETTINGS.from_dict"
    /\ calls = 3
    /\ DOMAIN first = {"SETTINGS.is_my_dict", "SETTINGS.from_dict"}
    /\ first["SETTINGS.is_my_dict"] = Ok(PyBool(TRUE))
    /\ IsOk(out)
    /\ dct = orig

\* --------------------------------------------------------------- unit claims

QuantityKeys == {"magnitude", "unit", ":is_custom:", "pint_unit_registry"}
UnitKeys == {"unit_name", "pint_unit_registry", ":is_custom:"}

\* C7 (as stated): the dict of a quantity has exactly the keys magnitude,
\* unit, ':is_custom:' and pint_unit_registry, with the quantity's magnitude,
\* a string naming its unit, true and 'openff_units'; the dict of a unit has
\* exactly unit_name (the unit's name), pint_unit_registry and ':is_custom:'.
QuantityDictHoldsUnitString ==
    /\ op = "QUANTITY.to_dict" =>
          /\ DOMAIN dct = QuantityKeys
          /\ dct["magnitude"] = arg[2].m
          /\ dct["unit"] = PyStr(arg[2].u[2])
          /\ dct[":is_custom:"] = PyBool(TRUE)
          /\ dct["pint_unit_registry"] = PyStr("openff_units")
    /\ op = "UNIT.to_dict" =>
          /\ DOMAIN dct = UnitKeys
          /\ dct["unit_name"] = PyStr(arg[2])
          /\ dct[":is_custom:"] = PyBool(TRUE)
          /\ dct["pint_unit_registry"] = PyStr("openff_units")

\* C7 (amended): the same, except that 'unit' holds the quantity's unit
\* object itself, not a string; it is the unit codec that turns a unit into
\* a dict holding its name.
QuantityDictHoldsUnitObject ==
    /\ op = "QUANTITY.to_dict" =>
          /\ DOMAIN dct = QuantityKeys
          /\ dct["magnitude"] = arg[2].m
          /\ dct["unit"] = arg[2].u
          /\ dct["unit"][1] = "unit"
          /\ dct[":is_custom:"] = PyBool(TRUE)
          /\ dct["pint_unit_registry"] = PyStr("openff_units")
    /\ op = "UNIT.to_dict" =>
          /\ DOMAIN dct = UnitKeys
          /\ dct["unit_name"] = PyStr(arg[2])
          /\ dct[":is_custom:"] = PyBool(TRUE)
          /\ dct["pint_unit_registry"] = PyStr("openff_units")

QuantityDictWitness ==
    /\ op = "QUANTITY.to_dict"
    /\ arg = Quantity(PyInt(1), Unit("second"))
    /\ dct["unit"] = Unit("second")

Predicates == {"is_openff_unit_dict", "is_openff_quantity_dict", "SETTINGS.is_my_dict"}
AllPredicatesRan == Predicates \subseteq DOMAIN first
TrueOf == {p \in Predicates \cap DOMAIN first : first[p] = Ok(PyBool(TRUE))}

\* The dict held was made by the unit codec or by the quantity codec.
UnitMade == arg[1] = "unit"
QuantityMade == arg[1] = "quantity"

InParticular ==
    /\ (UnitMade /\ AllPredicatesRan) => TrueOf = {"is_openff_unit_dict"}
    /\ (QuantityMade /\ AllPredicatesRan) => TrueOf = {"is_openff_quantity_dict"}
    /\ ("pint_unit_registry" \in DOMAIN orig /\ orig["pint_unit_registry"] # PyStr("openff_units")) =>
          TrueOf \cap {"is_openff_unit_dict", "is_openff_quantity_dict"} = {}
    /\ UnitKeys \ (DOMAIN orig) # {} => "is_openff_unit_dict" \notin TrueOf
    /\ QuantityKeys \ (DOMAIN orig) # {} => "is_openff_quantity_dict" \notin TrueOf

\* C8 (as stated): for any dict handed to decode at most one of the unit,
\* quantity and settings predicates returns true; in particular a unit's
\* dict is accepted by the unit predicate only, a quantity's by the quantity
\* predicate only, and a dict with another registry value, or lacking a
\* required key of a family, by neither of the two.
AtMostOnePredicate ==
    op \in DictOps => (Cardinality(TrueOf) <= 1 /\ InParticular)

\* C8 (amended): at most one predicate returns true for the dicts the unit
\* and quantity codecs produce, and for any dict that does not carry the
\* required keys of two families at once; the three particular cases hold as
\* stated.  A dict with the required keys of two families is accepted by
\* both.
CarriesTwoFamilies(d) ==
    Cardinality({F \in {UnitKeys, QuantityKeys, {"__module__", "__class__"}} :
                    F \subseteq DOMAIN d}) >= 2

AtMostOnePredicatePerFamily ==
    op \in DictOps =>
        /\ (UnitMade \/ QuantityMade \/ ~CarriesTwoFamilies(orig)) => Cardinality(TrueOf) <= 1
        /\ InParticular

AtMostOneWitness ==
    /\ QuantityMade
    /\ AllPredicatesRan
    /\ TrueOf = {"is_openff_quantity_dict"}

\* ------------------------------------------------------------ protocol claim

\* C10: every keyword create passes to _create is a parameter the abstract
\* _create declares, so a subclass whose _create has exactly the declared
\* parameters accepts the call, receives the ProtocolDAGResult to extend from,
\* and create returns the ProtocolDAG it built; gather returns what _gather
\* returns for the same results.
CreateDelegatesToDeclaredSignature ==
    /\ (op = "Protocol.create" /\ arg[2].signature = "declared") =>
          /\ CreateKeywords \subseteq DeclaredCreateParams
          /\ IsOk(out)
          /\ out[2][1] = "ProtocolDAG"
          /\ out[2][2].extends = arg[2].extend_from
          /\ out[2][2].initial = arg[2].initial
          /\ out[2][2].final = arg[2].final
    /\ op = "Protocol.gather" => out = SubclassGather(arg[2])

====
